---- MODULE Spec2Model ----
(***************************************************************************)
(* Model of tts_kali.py: one run of main(), from argument parsing to the   *)
(* process exit.  External collaborators (espeak, pyperclip, xclip, xsel,  *)
(* the terminal) are the environment: each call draws its outcome from a   *)
(* small set.                                                              *)
(*                                                                         *)
(* A Python string is the record [lead, core, reps, trail]: `lead' blanks, *)
(* then `core' repeated `reps' times, then `trail' blanks.  The core has   *)
(* no blank at either end.  The empty string has reps = 0.                 *)
(***************************************************************************)
EXTENDS Integers, Sequences, FiniteSets, TLC

\* ---------------------------------------------------------------- bounds
MaxPad == 1
MaxLines == 2

\* ------------------------------------------------------ program constants
LongLimit == 1000
DefaultSpeed == 160
DefaultPitch == 50
DefaultAmplitude == 100

\* ---------------------------------------------------------------- strings
Str(c, r) == [lead |-> 0, core |-> c, reps |-> r, trail |-> 0]

Lit(c) == Str(c, 1)

EmptyStr == Str("", 0)

Blank(n) == [lead |-> n, core |-> "", reps |-> 0, trail |-> 0]

Cores == {"a", "-x"}

Reps == {1, 1000, 1001}

Texts ==
    {Blank(n) : n \in 0..MaxPad} \cup
    {[lead |-> l, core |-> c, reps |-> r, trail |-> t] :
        l \in 0..MaxPad, c \in Cores, r \in Reps, t \in 0..MaxPad}

\* len(s)
PyLen(s) == s.lead + s.reps * Len(s.core) + s.trail

\* s.strip()
Strip(s) == [lead |-> 0, core |-> s.core, reps |-> s.reps, trail |-> 0]

\* str(n) for the integer options
PyStr(n) == Lit(ToString(n))

\* Optional values: Python's None against a present value.
None == [some |-> FALSE, val |-> EmptyStr]

Some(s) == [some |-> TRUE, val |-> s]

\* bool(x) for an optional string: None and "" are falsy.
Truthy(x) == x.some /\ PyLen(x.val) > 0

\* ------------------------------------------------------------ list helpers
Last(s) == s[Len(s)]

Front(s) == SubSeq(s, 1, Len(s) - 1)

Range(s) == {s[i] : i \in 1..Len(s)}

\* list.insert(-1, x): x goes in just before the last element
InsertBeforeLast(s, x) == Front(s) \o <<x>> \o <<Last(s)>>

\* ------------------------------------------------------- text_to_speech
\* The argument list of lines 71-85.
BuildCmd(text, voice, speed, pitch, amplitude, output) ==
    LET cmd == << Lit("espeak"),
                  Lit("-v"), voice,
                  Lit("-s"), PyStr(speed),
                  Lit("-p"), PyStr(pitch),
                  Lit("-a"), PyStr(amplitude),
                  Lit("--"),
                  text >>
    IN  IF Truthy(output)
        THEN InsertBeforeLast(InsertBeforeLast(cmd, Lit("-w")), output.val)
        ELSE cmd

\* Outcomes of subprocess.run: the child ran and exited ("zero", "nonzero"),
\* the executable was not found (FileNotFoundError), or the launch failed
\* otherwise (another OSError, or ValueError for an unusable argument).
RunOutcomes == {"zero", "nonzero", "notfound", "oserror"}

\* Lines 88-94: subprocess.run(cmd, check=True) under
\* `except subprocess.CalledProcessError'.
SpeechResult(outcome) ==
    CASE outcome = "zero"    -> "True"
      [] outcome = "nonzero" -> "False"
      [] OTHER               -> "raised"

\* One call of text_to_speech: what it was given, the command it ran, how
\* the engine ended and what the call gave back to its caller.
Run(text, output, cmd, outcome) ==
    [text |-> text, output |-> output, cmd |-> cmd,
     outcome |-> outcome, result |-> SpeechResult(outcome)]

\* ------------------------------------------------------- voice listing
\* The text `espeak --voices' prints is a sequence of lines, a line the
\* sequence of its whitespace-separated fields (line.split()).
HeaderLine == <<"Pty", "Language", "Age/Gender", "VoiceName">>

LineKinds ==
    { HeaderLine,
      <<"5", "ru", "M", "russian">>,
      <<"5", "en", "M", "default">>,
      <<"5", "de", "M">>,
      <<"5">>,
      <<>> }

RECURSIVE SeqsUpTo(_, _)
SeqsUpTo(S, n) ==
    IF n = 0 THEN {<<>>}
    ELSE LET shorter == SeqsUpTo(S, n - 1)
         IN  shorter \cup {Append(q, x) : q \in {r \in shorter : Len(r) = n - 1}, x \in S}

VoiceOutputs == SeqsUpTo(LineKinds, MaxLines)

RECURSIVE LStrip(_)
LStrip(ls) == IF ls # <<>> /\ Head(ls) = <<>> THEN LStrip(Tail(ls)) ELSE ls

RECURSIVE RStrip(_)
RStrip(ls) == IF ls # <<>> /\ Last(ls) = <<>> THEN RStrip(Front(ls)) ELSE ls

\* stdout.strip().split('\n'): blank lines at either end go; the empty
\* string splits into one empty line.
StripSplit(ls) ==
    LET s == RStrip(LStrip(ls))
    IN  IF s = <<>> THEN << <<>> >> ELSE s

\* sorted(): the order of the language codes
CodeOrder == <<"Language", "de", "en", "ru">>

Sorted(S) == SelectSeq(CodeOrder, LAMBDA c : c \in S)

FallbackVoices == <<"ru", "en", "de", "fr", "es">>

\* Lines 114-126.  A non-empty line with one field raises IndexError at
\* parts[1]; the bare except turns every exception into the fixed list.
GetAvailableVoices(outcome, stdout) ==
    IF outcome \in {"notfound", "oserror"} THEN FallbackVoices
    ELSE LET lines == Tail(StripSplit(stdout))
             bad   == \E i \in 1..Len(lines) : Len(lines[i]) = 1
             codes == {lines[i][2] : i \in {j \in 1..Len(lines) : Len(lines[j]) >= 2}}
         IN  IF bad THEN FallbackVoices ELSE Sorted(codes)

\* Lines 96-112: the (code, name) pairs list_voices prints.
ListedVoices(outcome, stdout) ==
    IF outcome \in {"notfound", "oserror"} THEN <<>>
    ELSE LET lines == Tail(StripSplit(stdout))
             shown == SelectSeq(lines, LAMBDA parts : Len(parts) >= 4)
         IN  [i \in 1..Len(shown) |-> <<shown[i][2], SubSeq(shown[i], 4, Len(shown[i]))>>]

\* ------------------------------------------------------- text acquisition
\* The methods list of _fallback_get_text, in its order.
Methods == <<"xclip -o -selection primary", "xclip -o", "xsel -o --primary">>

\* What a selection tool may print.
ToolTexts ==
    {Blank(n) : n \in 0..MaxPad} \cup
    {[lead |-> n, core |-> "a", reps |-> r, trail |-> n] : n \in 0..MaxPad, r \in {1, 1001}}

\* Line 55: result.returncode == 0 and result.stdout.strip()
ToolSucceeded(outcome, stdout) == outcome = "zero" /\ PyLen(Strip(stdout)) > 0

\* Line 35: not text or text.strip() == ""
ClipboardEmpty(t) == PyLen(t) = 0 \/ Strip(t) = EmptyStr

\* ---------------------------------------------------------------- main
Voices == {Lit("ru"), Lit("en")}

OutputArgs == {None, Some(EmptyStr), Some(Lit("out.wav"))}

TestText == Lit("TTS self-test utterance")

\* What the user may type at the prompt of line 204; "EOF" is a closed stdin.
Answers == {"y", "Y", "n", "yes", "", "EOF"}

\* str.lower() on the answers
Lower(a) == IF a = "Y" THEN "y" ELSE a

\* The comparison of line 202 with the limit itself counted as too long.
NeedsConfirmFromLimit(t) == PyLen(t) >= LongLimit

\* Line 202
NeedsConfirm(t) == PyLen(t) > LongLimit

\* Line 205
Declined(a) == Lower(a) # "y"

VARIABLES
    pc,         \* where main() is
    args,       \* the parsed command line
    text,       \* main's local `text'
    idx,        \* position of the loop of _fallback_get_text in Methods
    pasted,     \* what pyperclip.paste() did: None before the call
    attempts,   \* the selection tools run so far, with their outcomes
    runs,       \* the espeak synthesis commands run so far, with their outcomes
    voices,     \* what get_available_voices returned
    voicesFrom, \* the engine run get_available_voices read: outcome and stdout
    listed,     \* the lines list_voices printed
    confirm,    \* the answer read at the prompt, "unasked" before it
    success,    \* what text_to_speech returned to main
    out,        \* the messages printed
    exitStatus, \* the exit status of the process, -1 while it runs
    crashed     \* an exception left main()

vars == <<pc, args, text, idx, pasted, attempts, runs, voices, voicesFrom, listed,
          confirm, success, out, exitStatus, crashed>>

Init ==
    /\ pc = "start"
    /\ args \in [text : {None} \cup {Some(t) : t \in Texts},
                 output : OutputArgs,
                 voice : Voices,
                 speed : {DefaultSpeed},
                 pitch : {DefaultPitch},
                 amplitude : {DefaultAmplitude},
                 list_voices : BOOLEAN,
                 test : BOOLEAN]
    /\ text = None
    /\ idx = 0
    /\ pasted = [raised |-> FALSE, got |-> None]
    /\ attempts = <<>>
    /\ runs = <<>>
    /\ voices = <<>>
    /\ voicesFrom = [asked |-> FALSE, outcome |-> "zero", stdout |-> <<>>]
    /\ listed = <<>>
    /\ confirm = "unasked"
    /\ success = "unset"
    /\ out = <<>>
    /\ exitStatus = -1
    /\ crashed = FALSE

\* sys.exit(code), or main() returning (code 0)
Exit(code) ==
    /\ pc' = "done"
    /\ exitStatus' = code
    /\ crashed' = FALSE

\* An exception nobody catches: traceback, exit status 1
Crash ==
    /\ pc' = "done"
    /\ exitStatus' = 1
    /\ crashed' = TRUE

Continue(next) ==
    /\ pc' = next
    /\ UNCHANGED <<exitStatus, crashed>>

\* Lines 11-28, called from the constructor at line 162.  The second import
\* of pyperclip cannot fail: line 2 already imported it.
CheckDependencies ==
    /\ pc = "start"
    /\ \E probe \in RunOutcomes :
         CASE probe = "zero" ->
                /\ Continue("dispatch")
                /\ out' = out
           [] probe \in {"nonzero", "notfound"} ->
                /\ Exit(1)
                /\ out' = out \o <<"espeak missing", "install espeak">>
           [] OTHER ->
                /\ Crash
                /\ out' = out
    /\ UNCHANGED <<args, text, idx, pasted, attempts, runs, voices, voicesFrom, listed, confirm, success>>

\* Lines 164-166 with list_voices (96-112)
ListVoices ==
    /\ pc = "dispatch"
    /\ args.list_voices
    /\ \E outcome \in RunOutcomes, stdout \in VoiceOutputs :
         /\ listed' = ListedVoices(outcome, stdout)
         /\ out' = IF outcome \in {"notfound", "oserror"}
                   THEN out \o <<"voices unavailable">>
                   ELSE out \o <<"voices header">>
    /\ Exit(0)
    /\ UNCHANGED <<args, text, idx, pasted, attempts, runs, voices, voicesFrom, confirm, success>>

\* Lines 168-175
TestVoices ==
    /\ pc = "dispatch"
    /\ ~args.list_voices
    /\ args.test
    /\ \E outcome \in RunOutcomes, stdout \in VoiceOutputs :
         /\ voices' = GetAvailableVoices(outcome, stdout)
         /\ voicesFrom' = [asked |-> TRUE, outcome |-> outcome, stdout |-> stdout]
    /\ out' = out \o <<"test mode", "voices counted">>
    /\ Continue("test_speak")
    /\ UNCHANGED <<args, text, idx, pasted, attempts, runs, listed, confirm, success>>

\* Lines 177-181: text_to_speech(test_text, voice='ru', speed=160); the
\* value it returns is dropped.
TestSpeak ==
    /\ pc = "test_speak"
    /\ \E outcome \in RunOutcomes :
         LET cmd == BuildCmd(TestText, Lit("ru"), DefaultSpeed, DefaultPitch,
                             DefaultAmplitude, None)
         IN  /\ runs' = Append(runs, Run(TestText, None, cmd, outcome))
             /\ IF SpeechResult(outcome) = "raised"
                THEN Crash /\ out' = out \o <<"settings">>
                ELSE /\ Exit(0)
                     /\ out' = out \o (IF SpeechResult(outcome) = "False"
                                       THEN <<"settings", "espeak error">>
                                       ELSE <<"settings">>)
    /\ UNCHANGED <<args, text, idx, pasted, attempts, voices, voicesFrom, listed, confirm, success>>

\* Lines 184-186
TakeArgText ==
    /\ pc = "dispatch"
    /\ ~args.list_voices
    /\ ~args.test
    /\ Truthy(args.text)
    /\ text' = args.text
    /\ out' = out \o <<"text from arguments">>
    /\ Continue("length")
    /\ UNCHANGED <<args, idx, pasted, attempts, runs, voices, voicesFrom, listed, confirm, success>>

\* Lines 187-189 with get_selected_text (30-42) up to its return or its
\* call of _fallback_get_text.
GetSelectedText ==
    /\ pc = "dispatch"
    /\ ~args.list_voices
    /\ ~args.test
    /\ ~Truthy(args.text)
    /\ \/ \E t \in Texts :
            /\ pasted' = [raised |-> FALSE, got |-> Some(t)]
            /\ IF ClipboardEmpty(t)
               THEN /\ text' = None
                    /\ out' = out \o <<"reading selection", "clipboard empty">>
               ELSE /\ text' = Some(Strip(t))
                    /\ out' = out \o <<"reading selection">>
            /\ idx' = idx
            /\ Continue("acquired")
       \/ /\ pasted' = [raised |-> TRUE, got |-> None]
          /\ out' = out \o <<"reading selection", "clipboard error">>
          /\ idx' = 1
          /\ text' = text
          /\ Continue("fallback")
    /\ UNCHANGED <<args, attempts, runs, voices, voicesFrom, listed, confirm, success>>

\* One turn of the loop of lines 52-59, and the return of line 61 after the
\* last turn.
FallbackTry ==
    /\ pc = "fallback"
    /\ idx \in 1..Len(Methods)
    /\ \E outcome \in RunOutcomes, stdout \in ToolTexts :
         /\ outcome \in {"notfound", "oserror"} => stdout = EmptyStr
         /\ attempts' = Append(attempts, [tool |-> Methods[idx],
                                          outcome |-> outcome, stdout |-> stdout])
         /\ CASE outcome = "oserror" ->
                   /\ Crash
                   /\ UNCHANGED <<text, idx, out>>
              [] ToolSucceeded(outcome, stdout) ->
                   /\ text' = Some(Strip(stdout))
                   /\ out' = Append(out, "got via fallback")
                   /\ idx' = idx
                   /\ Continue("acquired")
              [] OTHER ->
                   /\ idx' = idx + 1
                   /\ text' = IF idx = Len(Methods) THEN None ELSE text
                   /\ out' = out
                   /\ Continue(IF idx = Len(Methods) THEN "acquired" ELSE "fallback")
    /\ UNCHANGED <<args, pasted, runs, voices, voicesFrom, listed, confirm, success>>

\* Lines 191-200 without the sys.exit(1): the message is printed and main
\* goes on.
CheckAcquiredNoExit ==
    /\ pc = "acquired"
    /\ out' = IF ~Truthy(text) THEN Append(out, "no text") ELSE out
    /\ Continue("length")
    /\ UNCHANGED <<args, text, idx, pasted, attempts, runs, voices, voicesFrom, listed, confirm, success>>

\* Lines 191-200
CheckAcquired ==
    /\ pc = "acquired"
    /\ IF ~Truthy(text)
       THEN /\ Exit(1)
            /\ out' = Append(out, "no text")
       ELSE /\ Continue("length")
            /\ out' = out
    /\ UNCHANGED <<args, text, idx, pasted, attempts, runs, voices, voicesFrom, listed, confirm, success>>

\* Lines 202-210
LengthCheck ==
    /\ pc = "length"
    /\ IF NeedsConfirm(text.val)
       THEN \E a \in Answers :
              /\ confirm' = a
              /\ CASE a = "EOF" ->
                        /\ Crash
                        /\ out' = Append(out, "long text warning")
                   [] a # "EOF" /\ Declined(a) ->
                        /\ Exit(0)
                        /\ out' = out \o <<"long text warning", "cancelled">>
                   [] OTHER ->
                        /\ Continue("speak")
                        /\ out' = out \o <<"long text warning", "text received">>
       ELSE /\ confirm' = confirm
            /\ Continue("speak")
            /\ out' = Append(out, "text received")
    /\ UNCHANGED <<args, text, idx, pasted, attempts, runs, voices, voicesFrom, listed, success>>

\* Lines 213-221 with text_to_speech (63-94)
Speak ==
    /\ pc = "speak"
    /\ \E outcome \in RunOutcomes :
         LET cmd == BuildCmd(text.val, args.voice, args.speed, args.pitch,
                             args.amplitude, args.output)
             said == IF Truthy(args.output)
                     THEN <<"starting", "saving to file", "settings">>
                     ELSE <<"starting", "settings">>
         IN  /\ runs' = Append(runs, Run(text.val, args.output, cmd, outcome))
             /\ success' = SpeechResult(outcome)
             /\ IF SpeechResult(outcome) = "raised"
                THEN Crash /\ out' = out \o said
                ELSE /\ Continue("report")
                     /\ out' = out \o said \o
                               (IF SpeechResult(outcome) = "False"
                                THEN <<"espeak error">> ELSE <<>>)
    /\ UNCHANGED <<args, text, idx, pasted, attempts, voices, voicesFrom, listed, confirm>>

\* Lines 223-229, then main() returns
Report ==
    /\ pc = "report"
    /\ out' = Append(out, CASE success # "True" -> "speech failed"
                            [] Truthy(args.output) -> "file saved"
                            [] OTHER -> "speech done")
    /\ Exit(0)
    /\ UNCHANGED <<args, text, idx, pasted, attempts, runs, voices, voicesFrom, listed, confirm, success>>

Next ==
    \/ CheckDependencies
    \/ ListVoices
    \/ TestVoices
    \/ TestSpeak
    \/ TakeArgText
    \/ GetSelectedText
    \/ FallbackTry
    \/ CheckAcquired
    \/ LengthCheck
    \/ Speak
    \/ Report

Spec == Init /\ [][Next]_vars

\* ------------------------------------------------------------- properties
NormalMode == ~args.list_voices /\ ~args.test

\* The clipboard read is over and it raised or gave nothing but blanks.
PrimaryFailed ==
    \/ pasted.raised
    \/ pasted.got.some /\ ClipboardEmpty(pasted.got.val)

AttemptSucceeded(a) == ToolSucceeded(a.outcome, a.stdout)

\* C1: in normal mode without explicit text, once the clipboard read has
\* raised or given only blanks, the selection tools have been tried in the
\* order of Methods, each one only after all earlier ones failed; the text
\* acquired is the trimmed output of the first tool that succeeded, and there
\* is no text only after all three have failed.
C1_FallbackAfterEmptyOrRaise ==
    (pc = "acquired" /\ NormalMode /\ PrimaryFailed) =>
        /\ attempts # <<>>
        /\ \A i \in 1..Len(attempts) :
             /\ i <= Len(Methods)
             /\ attempts[i].tool = Methods[i]
             /\ i < Len(attempts) => ~AttemptSucceeded(attempts[i])
        /\ IF AttemptSucceeded(Last(attempts))
           THEN text = Some(Strip(Last(attempts).stdout))
           ELSE Len(attempts) = Len(Methods) /\ text = None

\* C2: the synthesis command main launches for an explicit --text value ends
\* with the trimmed form of that value.
C2_ExplicitTextTrimmed ==
    (NormalMode /\ Truthy(args.text) /\ runs # <<>>) =>
        Last(runs[1].cmd) = Strip(args.text.val)

\* C3: in normal mode, when the engine started by text_to_speech exits
\* non-zero, the program ends with exit status 1 and ran the engine once.
C3_SynthesisFailureExitsOne ==
    (pc = "done" /\ NormalMode /\ runs # <<>> /\ runs[1].outcome = "nonzero") =>
        exitStatus = 1 /\ Len(runs) = 1

\* The arguments of a command line that are read as options: those before
\* the end-of-options marker.
Options(cmd) ==
    LET marks == {i \in 1..Len(cmd) : cmd[i] = Lit("--")}
        stop  == IF marks = {} THEN Len(cmd) + 1
                 ELSE CHOOSE i \in marks : \A j \in marks : i <= j
    IN  SubSeq(cmd, 1, stop - 1)

\* C4: with a non-empty output path the command ends with '-w', the path and
\* the text, in this order, and '-w' is read as an option, so the engine
\* writes a file; without an output path the command has no '-w'.
C4_OutputFlagBeforeText ==
    \A k \in 1..Len(runs) :
        LET r == runs[k]
            n == Len(r.cmd)
        IN  IF Truthy(r.output)
            THEN /\ r.cmd[n] = r.text
                 /\ r.cmd[n - 1] = r.output.val
                 /\ r.cmd[n - 2] = Lit("-w")
                 /\ Lit("-w") \in Range(Options(r.cmd))
            ELSE Lit("-w") \notin Range(r.cmd)

\* Every selection mechanism that was run gave no text.
AllMechanismsEmpty ==
    /\ PrimaryFailed
    /\ \A i \in 1..Len(attempts) : Strip(attempts[i].stdout) = EmptyStr

\* C5: without explicit text, when every acquisition mechanism gives empty
\* output, the engine is never run for synthesis and the program ends with
\* exit status 1.
C5_NoTextNoSynthesis ==
    (NormalMode /\ ~Truthy(args.text) /\ AllMechanismsEmpty) =>
        /\ runs = <<>>
        /\ pc \notin {"length", "speak", "report"}
        /\ pc = "done" => exitStatus = 1

C5_Witness ==
    /\ pc = "done"
    /\ NormalMode
    /\ ~Truthy(args.text)
    /\ pasted.raised
    /\ Len(attempts) = Len(Methods)
    /\ AllMechanismsEmpty
    /\ ~crashed
    /\ exitStatus = 1

\* C6: every engine run that did not exit zero, whether the engine exited
\* non-zero or could not be launched, makes text_to_speech return False, and
\* no exception leaves it.
C6_FailureReturnedNotRaised ==
    \A k \in 1..Len(runs) :
        runs[k].outcome # "zero" => runs[k].result = "False"

\* C7: get_available_voices returns the fixed list when the engine cannot be
\* launched, prints nothing, prints only a header line, or prints a voice
\* line with fewer than two fields.
C7_VoicesFallbackOnMalformed ==
    LET lines == RStrip(LStrip(voicesFrom.stdout))
        malformed ==
            \/ voicesFrom.outcome \in {"notfound", "oserror"}
            \/ Len(lines) <= 1
            \/ \E i \in 2..Len(lines) : Len(lines[i]) = 1
    IN  (voicesFrom.asked /\ malformed) => voices = FallbackVoices

\* C8: in normal mode a text longer than LongLimit characters is spoken only
\* after the answer 'y' or 'Y'; any other answer ends the program with the
\* cancellation message, exit status 0 and no synthesis; a text of at most
\* LongLimit characters is never asked about.
C8_LongTextDeclined ==
    /\ (confirm \notin {"unasked", "y", "Y", "EOF"}) =>
          /\ NormalMode
          /\ PyLen(text.val) > LongLimit
          /\ pc = "done"
          /\ Last(out) = "cancelled"
          /\ runs = <<>>
          /\ exitStatus = 0
          /\ ~crashed
    /\ (text.some /\ PyLen(text.val) <= LongLimit) => confirm = "unasked"
    /\ (pc \in {"speak", "report"} /\ PyLen(text.val) > LongLimit) =>
          confirm \in {"y", "Y"}

C8_Witness ==
    /\ pc = "done"
    /\ confirm = "yes"
    /\ PyLen(text.val) = LongLimit + 1
    /\ Last(out) = "cancelled"
    /\ exitStatus = 0

\* C9: the text of every synthesis run is non-empty after trimming.
C9_SpokenTextNonEmpty ==
    \A k \in 1..Len(runs) : PyLen(Strip(runs[k].text)) > 0

\* C10: in every command text_to_speech builds, '--' is the element just
\* before the text, and every flag with its value (-v, -s, -p, -a, and -w
\* when an output path is given) stands before the '--'.
C10_MarkerJustBeforeText ==
    \A k \in 1..Len(runs) :
        LET r == runs[k]
            n == Len(r.cmd)
            opts == Options(r.cmd)
            flags == {Lit("-v"), Lit("-s"), Lit("-p"), Lit("-a")} \cup
                     (IF Truthy(r.output) THEN {Lit("-w")} ELSE {})
        IN  /\ r.cmd[n] = r.text
            /\ r.cmd[n - 1] = Lit("--")
            /\ \A f \in flags : \E i \in 1..(Len(opts) - 1) : opts[i] = f
            /\ Truthy(r.output) =>
                 \E i \in 1..(Len(opts) - 1) :
                    opts[i] = Lit("-w") /\ opts[i + 1] = r.output.val

====
